---- MODULE Spec2Model ----
(***************************************************************************)
(* Model of cable_modem_stats.py: the poll cycle of CableModem /           *)
(* MotorolaMB7621 (fetch, authenticate, re-fetch, timestamp, parse,        *)
(* format) and of ArrisSB6183 (parse_modem, output_modem_data).            *)
(*                                                                         *)
(* Python values are represented as follows.                               *)
(*   str    a tuple of one-character strings, "" is << >>                  *)
(*          (the no-break space U+00A0 is the one-element "nbsp")          *)
(*   None   the tuple <<"None">> (not a str: its element is not a char)    *)
(*   int    <<"int", n>>                                                   *)
(*   float  <<"float", neg, m, e>>, the decimal (-1)^neg * m * 10^(-e),    *)
(*          normalised so that e = 0 or m is not a multiple of 10          *)
(* A call that may raise returns [ok, val, exc].                           *)
(***************************************************************************)
EXTENDS Integers, Sequences, FiniteSets, TLC

\* ------------------------------------------------------------------------
\* Bounds of the model
\* ------------------------------------------------------------------------
MaxTables == 2
MaxRows == 2
MaxRuns == 2

\* ------------------------------------------------------------------------
\* Python values
\* ------------------------------------------------------------------------
None == <<"None">>

PyInt(n) == <<"int", n>>

PyFloat(neg, m, e) == <<"float", neg, m, e>>

Ok(v) == [ok |-> TRUE, val |-> v, exc |-> "none"]

Raise(e) == [ok |-> FALSE, val |-> None, exc |-> e]

\* Truth value of a cell: None and "" are false, any other str is true.
Truthy(value) == value # None /\ value # << >>

Digits == <<"0", "1", "2", "3", "4", "5", "6", "7", "8", "9">>

IsDigit(c) == \E i \in 1..10 : Digits[i] = c

DigitVal(c) == (CHOOSE i \in 1..10 : Digits[i] = c) - 1

IsSpace(c) == c \in {" ", "nbsp"}

RECURSIVE LStrip(_)
LStrip(s) == IF s # << >> /\ IsSpace(Head(s)) THEN LStrip(Tail(s)) ELSE s

RECURSIVE RStrip(_)
RStrip(s) ==
    IF s # << >> /\ IsSpace(s[Len(s)]) THEN RStrip(SubSeq(s, 1, Len(s) - 1)) ELSE s

\* str.strip()
Strip(s) == RStrip(LStrip(s))

\* s[i:] of Python, for 0 <= i
From(s, i) == SubSeq(s, i + 1, Len(s))

StartsWith(s, sub) == Len(sub) <= Len(s) /\ SubSeq(s, 1, Len(sub)) = sub

\* sub in s
Contains(s, sub) == \E i \in 0..(Len(s) - Len(sub)) : StartsWith(From(s, i), sub)

\* str.replace(old, ""), for a non-empty old
RECURSIVE Remove(_, _)
Remove(s, old) ==
    IF s = << >> THEN << >>
    ELSE IF StartsWith(s, old) THEN Remove(From(s, Len(old)), old)
    ELSE <<Head(s)>> \o Remove(Tail(s), old)

AllDigits(s) == \A i \in 1..Len(s) : IsDigit(s[i])

RECURSIVE DecVal(_)
DecVal(s) == IF s = << >> THEN 0 ELSE 10 * DecVal(SubSeq(s, 1, Len(s) - 1)) + DigitVal(s[Len(s)])

HasSign(s) == s # << >> /\ Head(s) \in {"-", "+"}

Unsigned(s) == IF HasSign(s) THEN Tail(s) ELSE s

\* The int of the digits d, negated when neg; ValueError unless d is one or
\* more digits.
IntOfDigits(neg, d) ==
    IF d # << >> /\ AllDigits(d) THEN Ok(PyInt(IF neg THEN 0 - DecVal(d) ELSE DecVal(d)))
    ELSE Raise("ValueError")

IntOfStripped(s) == IntOfDigits(s # << >> /\ Head(s) = "-", Unsigned(s))

\* int(str): surrounding whitespace, an optional sign, one or more digits.
IntOf(value) == IntOfStripped(Strip(value))

RECURSIVE Pow10(_)
Pow10(n) == IF n = 0 THEN 1 ELSE 10 * Pow10(n - 1)

RECURSIVE Normalise(_, _, _)
Normalise(neg, m, e) ==
    IF e > 0 /\ m % 10 = 0 THEN Normalise(neg, m \div 10, e - 1) ELSE PyFloat(neg, m, e)

\* The float with integer digits ip and fraction digits fp.
FloatOfParts(neg, ip, fp) ==
    IF AllDigits(ip) /\ AllDigits(fp) /\ ip \o fp # << >>
    THEN Ok(Normalise(neg, DecVal(ip \o fp), Len(fp)))
    ELSE Raise("ValueError")

\* The float of d, whose points are at the positions dots.
FloatOfDigits(neg, d, dots) ==
    IF dots = {} THEN FloatOfParts(neg, d, << >>)
    ELSE IF Cardinality(dots) > 1 THEN Raise("ValueError")
    ELSE FloatOfParts(neg, SubSeq(d, 1, (CHOOSE i \in dots : TRUE) - 1),
                      SubSeq(d, (CHOOSE i \in dots : TRUE) + 1, Len(d)))

FloatOfUnsigned(neg, d) == FloatOfDigits(neg, d, {i \in 1..Len(d) : d[i] = "."})

FloatOfStripped(s) == FloatOfUnsigned(s # << >> /\ Head(s) = "-", Unsigned(s))

\* float(str): surrounding whitespace, an optional sign, digits with at most
\* one point and at least one digit.
FloatOf(value) == FloatOfStripped(Strip(value))

\* What fn(value) is for the two conversions the parsers use.
Apply(fn, value) == IF fn = "int" THEN IntOf(value) ELSE FloatOf(value)

\* str_map(value, fn)
str_map(value, fn) == IF Truthy(value) THEN Apply(fn, value) ELSE Ok(value)

\* ------------------------------------------------------------------------
\* Channel records
\* ------------------------------------------------------------------------
DownstreamChannel(channel_id, frequency, power, snr, corrected, uncorrectables) ==
    [channel_id |-> channel_id, frequency |-> frequency, power |-> power,
     snr |-> snr, corrected |-> corrected, uncorrectables |-> uncorrectables]

UpstreamChannel(channel_id, frequency, power, snr) ==
    [channel_id |-> channel_id, frequency |-> frequency, power |-> power, snr |-> snr]

\* namedtuple._fields, in declaration order
DownstreamFields ==
    <<"channel_id", "frequency", "power", "snr", "corrected", "uncorrectables">>

UpstreamFields == <<"channel_id", "frequency", "power", "snr">>

\* The statements  x = str_map(channel_details[i], fn)  of downstream() and
\* upstream(), executed in order: the first failing one raises.
RECURSIVE ConvertDetails(_, _, _, _)
ConvertNext(channel_details, fns, i, acc, r) ==
    IF r.ok THEN ConvertDetails(channel_details, fns, i + 1, Append(acc, r.val)) ELSE r

ConvertDetails(channel_details, fns, i, acc) ==
    IF i > Len(fns) THEN Ok(acc)
    ELSE IF i > Len(channel_details) THEN Raise("IndexError")
    ELSE ConvertNext(channel_details, fns, i, acc, str_map(channel_details[i], fns[i]))

\* The namedtuple of the converted values r, or the exception r.
DownstreamOf(r) ==
    IF r.ok
    THEN Ok(DownstreamChannel(r.val[1], r.val[2], r.val[3], r.val[4], r.val[5], r.val[6]))
    ELSE r

UpstreamOf(r) ==
    IF r.ok THEN Ok(UpstreamChannel(r.val[1], r.val[2], r.val[3], r.val[4])) ELSE r

downstream(channel_details) ==
    DownstreamOf(ConvertDetails(channel_details,
                                <<"int", "float", "float", "float", "int", "int">>, 1, << >>))

upstream(channel_details) ==
    UpstreamOf(ConvertDetails(channel_details, <<"int", "float", "float", "float">>, 1, << >>))

\* ------------------------------------------------------------------------
\* The HTML document, as far as the parsers look at it
\*   cell    [tag, string]      tag is "td" or "th", string is a str or None
\*   row     a sequence of cells (the direct children of a <tr>)
\*   table   [class, rows]      rows are the direct <tr> children
\*   page    [title, tables]    title is None or <<"title", string>>
\* ------------------------------------------------------------------------
TableClass == "moto-table-content"

\* CableModem._parse_table: the .string of the direct td cells of each row
_parse_table(table_element) ==
    [i \in 1..Len(table_element.rows) |->
        LET tds == SelectSeq(table_element.rows[i], LAMBDA c : c.tag = "td")
        IN  [j \in 1..Len(tds) |-> tds[j].string]]

Login == <<"L", "o", "g", "i", "n">>

\* MotorolaMB7621.needs_authentication
needs_authentication(page) ==
    IF page.title = None THEN Raise("AttributeError")
    ELSE IF page.title[2] = None THEN Raise("TypeError")
    ELSE Ok(Contains(page.title[2], Login))

Locked == <<"L", "o", "c", "k", "e", "d">>

Total == <<"T", "o", "t", "a", "l">>

\* '\xa0\xa0\xa0Channel'
ChannelSentinel == <<"nbsp", "nbsp", "nbsp", "C", "h", "a", "n", "n", "e", "l">>

ChannelID == <<"C", "h", "a", "n", "n", "e", "l", " ", "I", "D">>

FreqMHz == <<"F", "r", "e", "q", ".", " ", "(", "M", "H", "z", ")">>

PwrdBmV == <<"P", "w", "r", " ", "(", "d", "B", "m", "V", ")">>

SNRdB == <<"S", "N", "R", " ", "(", "d", "B", ")">>

Corrected == <<"C", "o", "r", "r", "e", "c", "t", "e", "d">>

Uncorrected == <<"U", "n", "c", "o", "r", "r", "e", "c", "t", "e", "d">>

SymbRate == <<"S", "y", "m", "b", ".", " ", "R", "a", "t", "e", " ", "(", "K", "s", "y", "m",
              "/", "s", "e", "c", ")">>

DownstreamHeaders == <<ChannelID, FreqMHz, PwrdBmV, SNRdB, Corrected, Uncorrected>>

UpstreamHeaders == <<ChannelID, SymbRate, FreqMHz, PwrdBmV>>

DownstreamWarning == "WARNING: Downstream table did not match."

UpstreamWarning == "WARNING: Upstream table did not match."

\* The state a parse works on: the collector's two lists, what was printed,
\* and the exception that ended it ("none" while it runs).
ParseState(down, up, printed, exc) ==
    [downstream_channels |-> down, upstream_channels |-> up, printed |-> printed, exc |-> exc]

\* self.downstream_channels.append(channel_data), or the exception of
\* downstream(), and the rest of the loop.
RECURSIVE DownstreamRows(_, _, _)
AppendDownstream(table_data, i, st, channel_data) ==
    IF ~channel_data.ok THEN [st EXCEPT !.exc = channel_data.exc]
    ELSE DownstreamRows(table_data, i + 1,
                        [st EXCEPT !.downstream_channels = Append(@, channel_data.val)])

\* A filter that lets the summary row through.
SkipNotLocked(row) == row[2] # Locked

\* if row[1] != "Locked" or row[0] == "Total": continue
SkipDownstream(row) == row[2] # Locked \/ row[1] = Total

\* One iteration of the downstream row loop.
DownstreamRow(table_data, i, st, row) ==
    IF Len(row) < 2 THEN [st EXCEPT !.exc = "IndexError"]
    ELSE IF SkipDownstream(row) THEN DownstreamRows(table_data, i + 1, st)
    ELSE AppendDownstream(table_data, i, st, downstream(From(row, 3)))

\* The downstream row loop: for row in table_data[1:] from row i on.
DownstreamRows(table_data, i, st) ==
    IF i > Len(table_data) THEN st ELSE DownstreamRow(table_data, i, st, table_data[i])

RECURSIVE UpstreamRows(_, _, _)
AppendUpstream(table_data, i, st, channel_data) ==
    IF ~channel_data.ok THEN [st EXCEPT !.exc = channel_data.exc]
    ELSE UpstreamRows(table_data, i + 1,
                      [st EXCEPT !.upstream_channels = Append(@, channel_data.val)])

\* One iteration of the upstream row loop:
\* if row[1] != "Locked": continue, and input_data = [row[3]] + row[5:] + [None]
UpstreamRow(table_data, i, st, row) ==
    IF Len(row) < 2 THEN [st EXCEPT !.exc = "IndexError"]
    ELSE IF row[2] # Locked THEN UpstreamRows(table_data, i + 1, st)
    ELSE IF Len(row) < 4 THEN [st EXCEPT !.exc = "IndexError"]
    ELSE AppendUpstream(table_data, i, st, upstream(<<row[4]>> \o From(row, 5) \o <<None>>))

\* The upstream row loop.
UpstreamRows(table_data, i, st) ==
    IF i > Len(table_data) THEN st ELSE UpstreamRow(table_data, i, st, table_data[i])

\* The body of the table loop of MotorolaMB7621._parse_status_page, for the
\* table data and its header.
ParseTableData(table_data, header, st) ==
    IF header = << >> THEN [st EXCEPT !.exc = "IndexError"]
    ELSE IF header[1] # ChannelSentinel THEN st
    ELSE IF Len(header) = 9
         THEN IF From(header, 3) # DownstreamHeaders
              THEN [st EXCEPT !.printed = Append(@, DownstreamWarning)]
              ELSE DownstreamRows(table_data, 2, st)
    ELSE IF Len(header) = 7
         THEN IF From(header, 3) # UpstreamHeaders
              THEN [st EXCEPT !.printed = Append(@, UpstreamWarning)]
              ELSE UpstreamRows(table_data, 2, st)
    ELSE st

\* if not table_data: continue
ParseOneTable(table_data, st) ==
    IF table_data = << >> THEN st ELSE ParseTableData(table_data, table_data[1], st)

RECURSIVE ParseTables(_, _, _)
ParseTables(tables, i, st) ==
    IF i > Len(tables) \/ st.exc # "none" THEN st
    ELSE ParseTables(tables, i + 1, ParseOneTable(_parse_table(tables[i]), st))

\* MotorolaMB7621._parse_status_page, run on a collector whose lists are
\* down and up.
_parse_status_page(page, down, up) ==
    ParseTables(SelectSeq(page.tables, LAMBDA t : t.class = TableClass), 1,
                ParseState(down, up, << >>, "none"))

\* ------------------------------------------------------------------------
\* The pages the modem can serve
\* ------------------------------------------------------------------------
Td(string) == [tag |-> "td", string |-> string]

Th(string) == [tag |-> "th", string |-> string]

TdRow(cells) == [i \in 1..Len(cells) |-> Td(cells[i])]

ThRow(cells) == [i \in 1..Len(cells) |-> Th(cells[i])]

LockStatus == <<"L", "o", "c", "k", " ", "S", "t", "a", "t", "u", "s">>

Modulation == <<"M", "o", "d", "u", "l", "a", "t", "i", "o", "n">>

NotLocked == <<"N", "o", "t", " ", "L", "o", "c", "k", "e", "d">>

QAM == <<"Q", "A", "M">>

DownstreamHeaderRow == <<ChannelSentinel, LockStatus, Modulation>> \o DownstreamHeaders

UpstreamHeaderRow == <<ChannelSentinel, LockStatus, Modulation>> \o UpstreamHeaders

\* Eight columns: the downstream header without its last column.
EightColumnHeaderRow == SubSeq(DownstreamHeaderRow, 1, 8)

\* Nine and seven columns with two labels exchanged.
DownstreamHeaderRowSwapped ==
    <<ChannelSentinel, LockStatus, Modulation, ChannelID, PwrdBmV, FreqMHz, SNRdB,
      Corrected, Uncorrected>>

UpstreamHeaderRowSwapped ==
    <<ChannelSentinel, LockStatus, Modulation, ChannelID, FreqMHz, SymbRate, PwrdBmV>>

\* Tables of the page that are not channel tables.
OtherHeaderRow == <<Modulation, LockStatus>>

NoTextHeaderRow == <<None>> \o Tail(DownstreamHeaderRow)

\* Data rows: Channel, Lock Status, Modulation, Channel ID, then the measurements.
RowLocked9 == <<<<"1">>, Locked, QAM, <<"2">>, <<"7", ".", "5">>, <<"8", ".", "1">>, <<"3", "9">>, <<"4">>, <<"0">>>>

RowNotLocked9 == <<<<"2">>, NotLocked, QAM, <<"3">>, <<"7", ".", "5">>, <<"8", ".", "1">>, <<"3", "9">>, <<"4">>, <<"0">>>>

RowTotal9 == <<Total, Locked, QAM, <<"9">>, <<"1">>, <<"1">>, <<"1">>, <<"5">>, <<"6">>>>

RowGarbled9 == <<<<"3">>, Locked, QAM, <<"5">>, <<"3", " ", "H", "z">>, <<"8", ".", "1">>, <<"3", "9">>, <<"4">>, <<"0">>>>

RowEmptyCells9 == <<<<"4">>, Locked, QAM, <<"6">>, <<"-", "1", ".", "5", "0">>, None, << >>, None, <<"0">>>>

RowLocked7 == <<<<"1">>, Locked, QAM, <<"3">>, <<"5", "1", "2", "0">>, <<"3", "2", ".", "4">>, <<"3", "7", ".", "4">>>>

RowNotLocked7 == <<<<"2">>, NotLocked, QAM, <<"4">>, <<"5", "1", "2", "0">>, <<"3", "2", ".", "4">>, <<"3", "7", ".", "4">>>>

RowShort == <<<<"1">>>>

\* The data rows of a table of nine columns and of a table of seven.
DownstreamRowChoices == {RowLocked9, RowNotLocked9, RowTotal9, RowGarbled9, RowEmptyCells9}

UpstreamRowChoices == {RowLocked7, RowNotLocked7, RowShort}

\* A table kind is the class of the table, its header rows (none or one) and
\* the data rows it can have.
TableKind(class, header, rows) == [class |-> class, header |-> header, rows |-> rows]

\* The two channel tables with well-formed rows and a garbled one.
CycleKinds ==
    {TableKind(TableClass, <<TdRow(DownstreamHeaderRow)>>, {RowLocked9, RowGarbled9}),
     TableKind(TableClass, <<TdRow(UpstreamHeaderRow)>>, {RowLocked7})}

\* The channel tables with every data row, and the tables that are not
\* channel tables with a data row that a channel table would accept.
AllKinds ==
    {TableKind(TableClass, <<TdRow(DownstreamHeaderRow)>>, DownstreamRowChoices),
     TableKind(TableClass, <<TdRow(UpstreamHeaderRow)>>, UpstreamRowChoices)}
    \cup {TableKind(TableClass, <<TdRow(h)>>, {RowLocked9}) :
            h \in {EightColumnHeaderRow, DownstreamHeaderRowSwapped, UpstreamHeaderRowSwapped,
                   OtherHeaderRow, NoTextHeaderRow}}
    \cup {TableKind(TableClass, <<ThRow(DownstreamHeaderRow)>>, {RowLocked9}),
          TableKind(TableClass, << >>, {RowLocked9}),
          TableKind("other", <<TdRow(DownstreamHeaderRow)>>, {RowLocked9})}

\* The tables of a kind with n data rows.
TablesWith(kinds, n) ==
    {[class |-> k[1].class, rows |-> k[1].header \o [i \in 1..n |-> TdRow(k[2][i])]] :
        k \in UNION {{<<kind, rs>> : rs \in [1..n -> kind.rows]} : kind \in kinds}}

RECURSIVE Sum(_, _)
Sum(counts, i) == IF i > Len(counts) THEN 0 ELSE counts[i] + Sum(counts, i + 1)

\* The data rows of each table of a page: at most MaxTables tables with at
\* most MaxRows data rows in all.
RowCounts ==
    UNION {{counts \in [1..k -> 0..MaxRows] : Sum(counts, 1) <= MaxRows} : k \in 0..MaxTables}

\* The sequences of tables from the i-th on, the i-th with counts[i] data rows.
RECURSIVE TableSeqs(_, _, _)
TableSeqs(kinds, counts, i) ==
    IF i > Len(counts) THEN {<< >>}
    ELSE {<<t>> \o p : t \in TablesWith(kinds, counts[i]), p \in TableSeqs(kinds, counts, i + 1)}

StatusTitle == <<"S", "t", "a", "t", "u", "s">>

LoginTitle == <<"M", " ", ":", " ", "L", "o", "g", "i", "n">>

Page(title, tables) == [title |-> title, tables |-> tables]

\* The status pages whose tables have counts data rows.
StatusPages(kinds, counts) ==
    {Page(<<"title", StatusTitle>>, ts) : ts \in TableSeqs(kinds, counts, 1)}

LoginPage == Page(<<"title", LoginTitle>>, << >>)

\* A document without a title element, and one whose title has no text.
NoTitlePage == Page(None, << >>)

EmptyTitlePage == Page(<<"title", None>>, << >>)

\* ------------------------------------------------------------------------
\* base64 and the login form
\* ------------------------------------------------------------------------
\* The characters '+' (43) to 'z' (122) in code order ("backslash" and
\* "backtick" stand for the characters 92 and 96).
AsciiFromPlus ==
    <<"+", ",", "-", ".", "/",
      "0", "1", "2", "3", "4", "5", "6", "7", "8", "9", ":", ";", "<", "=", ">", "?", "@",
      "A", "B", "C", "D", "E", "F", "G", "H", "I", "J", "K", "L", "M", "N", "O", "P", "Q",
      "R", "S", "T", "U", "V", "W", "X", "Y", "Z", "[", "backslash", "]", "^", "_", "backtick",
      "a", "b", "c", "d", "e", "f", "g", "h", "i", "j", "k", "l", "m", "n", "o", "p", "q", "r", "s",
      "t", "u", "v", "w", "x", "y", "z">>

Ord(c) == 42 + (CHOOSE i \in 1..Len(AsciiFromPlus) : AsciiFromPlus[i] = c)

Chr(n) == AsciiFromPlus[n - 42]

\* str.encode('utf-8') and bytes.decode('utf-8'), for characters '+'..'z'
encode(string) == [i \in 1..Len(string) |-> Ord(string[i])]

decode(bytes) == [i \in 1..Len(bytes) |-> Chr(bytes[i])]

Base64Alphabet ==
    <<"A", "B", "C", "D", "E", "F", "G", "H", "I", "J", "K", "L", "M", "N", "O", "P", "Q",
      "R", "S", "T", "U", "V", "W", "X", "Y", "Z", "a", "b", "c", "d", "e", "f", "g", "h",
      "i", "j", "k", "l", "m", "n", "o", "p", "q", "r", "s", "t", "u", "v", "w", "x", "y",
      "z", "0", "1", "2", "3", "4", "5", "6", "7", "8", "9", "+", "/">>

\* base64.b64encode: three bytes give the bytes of four characters, '=' pads
\* the last group.
RECURSIVE b64encode(_)
b64encode(bytes) ==
    IF bytes = << >> THEN << >>
    ELSE LET n == Len(bytes)
             v == bytes[1] * 65536 + (IF n >= 2 THEN bytes[2] * 256 ELSE 0)
                    + (IF n >= 3 THEN bytes[3] ELSE 0)
         IN  encode(<<Base64Alphabet[(v \div 262144) + 1],
                      Base64Alphabet[((v \div 4096) % 64) + 1],
                      IF n >= 2 THEN Base64Alphabet[((v \div 64) % 64) + 1] ELSE "=",
                      IF n >= 3 THEN Base64Alphabet[(v % 64) + 1] ELSE "=">>)
             \o b64encode(From(bytes, 3))

B64Val(c) == (CHOOSE i \in 1..64 : Base64Alphabet[i] = c) - 1

IsB64(c) == \E i \in 1..64 : Base64Alphabet[i] = c

\* base64.b64decode of the test fixture's modem, for bytes of alphabet
\* characters and '=': groups of four characters, padding only at the end.
RECURSIVE b64decode(_)
b64decode(bytes_in) ==
    LET text == decode(bytes_in) IN
    IF text = << >> THEN Ok(<< >>)
    ELSE IF Len(text) < 4 \/ ~IsB64(text[1]) \/ ~IsB64(text[2]) THEN Raise("binascii.Error")
    ELSE LET pad == IF text[3] = "=" THEN 2 ELSE IF text[4] = "=" THEN 1 ELSE 0
             ok == /\ (pad = 2 => text[4] = "=")
                   /\ (pad < 2 => IsB64(text[3]))
                   /\ (pad = 0 => IsB64(text[4]))
                   /\ (pad > 0 => Len(text) = 4)
             v == B64Val(text[1]) * 262144 + B64Val(text[2]) * 4096
                    + (IF pad < 2 THEN B64Val(text[3]) * 64 ELSE 0)
                    + (IF pad = 0 THEN B64Val(text[4]) ELSE 0)
             bytes == SubSeq(<<v \div 65536, (v \div 256) % 256, v % 256>>, 1, 3 - pad)
             rest == b64decode(From(bytes_in, 4))
         IN  IF ~ok THEN Raise("binascii.Error")
             ELSE IF ~rest.ok THEN rest
             ELSE Ok(bytes \o rest.val)

\* A form that carries the password as it was given.
LoginFormPlain(username, password) == [loginUsername |-> username, loginPassword |-> password]

\* The login form MotorolaMB7621.authenticate posts.
LoginForm(username, password) ==
    [loginUsername |-> username, loginPassword |-> decode(b64encode(encode(password)))]

\* page_status['auth'] of the modem.
ModemAuth == <<<<"u", "s", "e", "r", "n", "a", "m", "e">>, <<"p", "a", "s", "s", "1", "2", "3", "4">>>>

\* Whether bytes.decode gives characters '+'..'z'.
Decodable(bytes) == \A i \in 1..Len(bytes) : bytes[i] \in 43..122

\* mb7621_login of the test fixture: whether the posted form logs in. A
\* password that cannot be decoded does not log in.
mb7621_login(form) ==
    LET password == b64decode(encode(form.loginPassword))
    IN  /\ password.ok
        /\ Decodable(password.val)
        /\ <<form.loginUsername, decode(password.val)>> = ModemAuth

\* The credentials a collector is constructed with: none, right, a wrong
\* password, a wrong user, and a configuration section without the two keys.
AuthChoices ==
    {None, ModemAuth, <<ModemAuth[1], <<"p", "a", "s", "s", "1", "2", "3">>>>, <<<<"a", "d", "m", "i", "n">>, ModemAuth[2]>>, <<None, None>>}

\* A modem that answers anything does not look at the credentials: one
\* collector of each shape.
AnyAuthChoices == {None, ModemAuth, <<None, None>>}

\* ------------------------------------------------------------------------
\* Output formats
\* ------------------------------------------------------------------------
RECURSIVE NatText(_)
NatText(n) == IF n < 10 THEN <<Digits[n + 1]>> ELSE NatText(n \div 10) \o <<Digits[(n % 10) + 1]>>

RECURSIVE ZeroPad(_, _)
ZeroPad(text, width) == IF Len(text) >= width THEN text ELSE ZeroPad(<<"0">> \o text, width)

\* str(value) of '{}'.format(value): int, float, str or None
Str(value) ==
    IF value = None THEN <<"N", "o", "n", "e">>
    ELSE IF value = << >> THEN << >>
    ELSE IF value[1] = "int"
         THEN (IF value[2] < 0 THEN <<"-">> ELSE << >>)
                \o NatText(IF value[2] < 0 THEN 0 - value[2] ELSE value[2])
    ELSE IF value[1] = "float"
         THEN (IF value[2] THEN <<"-">> ELSE << >>)
                \o NatText(value[3] \div Pow10(value[4])) \o <<".">>
                \o (IF value[4] = 0 THEN <<"0">>
                    ELSE ZeroPad(NatText(value[3] % Pow10(value[4])), value[4]))
    ELSE value

\* The clock counts half seconds; this is math.trunc(when.timestamp()).
Timestamp(when) == when \div 2

\* '{}000000000'.format(current_time)
CurrentNs(when) == NatText(Timestamp(when)) \o [i \in 1..9 |-> "0"]

\* A formatter that writes every field and tags the line with the channel id.
format_channel_all(measurement, current_ns, channel_data, field_names, direction, channel) ==
    [measurement |-> measurement,
     tags |-> <<<<"direction", direction>>, <<"channel", Str(channel_data.channel_id)>>>>,
     fields |-> [i \in 1..Len(field_names) |->
                    <<field_names[i], Str(channel_data[field_names[i]])>>],
     when |-> current_ns]

\* format_channel of _format_influxdb: the parts of one line. The fields are
\* those of channel_data that are not None, in _fields order.
format_channel(measurement, current_ns, channel_data, field_names, direction, channel) ==
    LET present == SelectSeq(field_names, LAMBDA f : channel_data[f] # None)
    IN  [measurement |-> measurement,
         tags |-> <<<<"direction", direction>>, <<"channel", NatText(channel)>>>>,
         fields |-> [i \in 1..Len(present) |-> <<present[i], Str(channel_data[present[i]])>>],
         when |-> current_ns]

\* CableModem._format_influxdb: the lines that are joined with '\n'
_format_influxdb(down, up, when) ==
    LET current_ns == CurrentNs(when)
    IN  [i \in 1..Len(down) |->
            format_channel("cable_modem", current_ns, down[i], DownstreamFields, "downstream", i)]
        \o [i \in 1..Len(up) |->
            format_channel("cable_modem", current_ns, up[i], UpstreamFields, "upstream", i)]

\* CableModem._format_json: a namedtuple is dumped as the array of its values
_format_json(down, up) ==
    [downstream |-> [i \in 1..Len(down) |->
                        [j \in 1..Len(DownstreamFields) |-> down[i][DownstreamFields[j]]]],
     upstream |-> [i \in 1..Len(up) |->
                        [j \in 1..Len(UpstreamFields) |-> up[i][UpstreamFields[j]]]]]

\* CableModem.format_modem_data: None for any other format name
format_modem_data(output_format, down, up, when) ==
    IF output_format = "json" THEN [format |-> "json", data |-> _format_json(down, up)]
    ELSE IF output_format = "influxdb"
         THEN [format |-> "influxdb", data |-> _format_influxdb(down, up, when)]
    ELSE [format |-> "None", data |-> << >>]

OutputFormats == {"influxdb", "json"}

\* ------------------------------------------------------------------------
\* ArrisSB6183
\* ------------------------------------------------------------------------
\* Tag.text of a cell: the empty string when the cell has no text
Text(cell) == IF cell.string = None THEN << >> ELSE cell.string

\* fn(values[i]) for the conversions of one result dict, in order: the first
\* failing one raises.
RECURSIVE ApplyAll(_, _, _, _)
ApplyAll(values, fns, i, acc) ==
    IF i > Len(fns) THEN Ok(acc)
    ELSE LET r == Apply(fns[i], values[i])
         IN  IF r.ok THEN ApplyAll(values, fns, i + 1, Append(acc, r.val)) ELSE r

\* A local variable of parse_modem that has not been assigned yet.
Unbound == <<"Unbound">>

\* The locals of parse_modem that outlive a loop iteration, and the exception
\* that ended it ("none" while it runs).
ArrisState(series, snr, exc) == [series |-> series, snr |-> snr, exc |-> exc]

\* The downstream loop of parse_modem over the rows from row i on.
RECURSIVE ArrisDownstreamRows(_, _, _, _)
ArrisDownstreamRows(rows, i, current_ns, st) ==
    IF i > Len(rows) THEN st
    ELSE IF \E j \in 1..Len(rows[i]) : rows[i][j].tag = "th"
         THEN ArrisDownstreamRows(rows, i + 1, current_ns, st)
    ELSE LET row_columns == SelectSeq(rows[i], LAMBDA c : c.tag = "td")
         IN  IF Len(row_columns) < 9 THEN [st EXCEPT !.exc = "IndexError"]
             ELSE LET channel == Strip(Text(row_columns[1]))
                      channel_id == Strip(Text(row_columns[4]))
                      frequency == Strip(Remove(Text(row_columns[5]), <<" ", "H", "z">>))
                      power == Strip(Remove(Text(row_columns[6]), <<" ", "d", "B", "m", "V">>))
                      snr == Strip(Remove(Text(row_columns[7]), <<" ", "d", "B">>))
                      corrected == Strip(Text(row_columns[8]))
                      uncorrectables == Strip(Text(row_columns[9]))
                      r == ApplyAll(<<channel_id, frequency, power, snr, corrected,
                                      uncorrectables, channel>>,
                                    <<"int", "int", "float", "float", "int", "int", "int">>,
                                    1, << >>)
                      downstream_result_dict ==
                          [measurement |-> "cable_modem", time |-> current_ns,
                           fields |-> DownstreamChannel(r.val[1], r.val[2], r.val[3], r.val[4],
                                                        r.val[5], r.val[6]),
                           tags |-> [channel |-> r.val[7], direction |-> "downstream"]]
                  IN  IF ~r.ok THEN [st EXCEPT !.snr = snr, !.exc = r.exc]
                      ELSE ArrisDownstreamRows(rows, i + 1, current_ns,
                               [st EXCEPT !.snr = snr,
                                          !.series = Append(@, downstream_result_dict)])

\* The upstream loop of parse_modem: snr is whatever the downstream loop left.
RECURSIVE ArrisUpstreamRows(_, _, _, _)
ArrisUpstreamRows(rows, i, current_ns, st) ==
    IF i > Len(rows) THEN st
    ELSE IF \E j \in 1..Len(rows[i]) : rows[i][j].tag = "th"
         THEN ArrisUpstreamRows(rows, i + 1, current_ns, st)
    ELSE LET row_columns == SelectSeq(rows[i], LAMBDA c : c.tag = "td")
         IN  IF Len(row_columns) < 7 THEN [st EXCEPT !.exc = "IndexError"]
             ELSE LET channel == Strip(Text(row_columns[1]))
                      channel_id == Strip(Text(row_columns[4]))
                      frequency == Strip(Remove(Text(row_columns[6]), <<" ", "H", "z">>))
                      power == Strip(Remove(Text(row_columns[7]), <<" ", "d", "B", "m", "V">>))
                      r1 == ApplyAll(<<channel_id, frequency, power>>,
                                     <<"int", "int", "float">>, 1, << >>)
                      r2 == ApplyAll(<<st.snr, channel>>, <<"float", "int">>, 1, << >>)
                      upstream_result_dict ==
                          [measurement |-> "cable_modem", time |-> current_ns,
                           fields |-> UpstreamChannel(r1.val[1], r1.val[2], r1.val[3], r2.val[1]),
                           tags |-> [channel |-> r2.val[2], direction |-> "upstream"]]
                  IN  IF ~r1.ok THEN [st EXCEPT !.exc = r1.exc]
                      ELSE IF st.snr = Unbound THEN [st EXCEPT !.exc = "UnboundLocalError"]
                      ELSE IF ~r2.ok THEN [st EXCEPT !.exc = r2.exc]
                      ELSE ArrisUpstreamRows(rows, i + 1, current_ns,
                               [st EXCEPT !.series = Append(@, upstream_result_dict)])

\* ArrisSB6183.parse_modem after the page is fetched: the third table of the
\* document is the downstream table, the fourth the upstream table, and the
\* first two rows of each are skipped.
parse_modem(page, when) ==
    LET tables == page.tables
        current_ns == CurrentNs(when)
        st0 == ArrisState(<< >>, Unbound, "none")
        st1 == ArrisDownstreamRows(From(tables[3].rows, 2), 1, current_ns, st0)
    IN  IF Len(tables) < 3 THEN [st0 EXCEPT !.exc = "IndexError"]
        ELSE IF st1.exc # "none" THEN st1
        ELSE IF Len(tables) < 4 THEN [st1 EXCEPT !.exc = "IndexError"]
        ELSE ArrisUpstreamRows(From(tables[4].rows, 2), 1, current_ns, st1)

\* ArrisSB6183.output_modem_data: the parts of the printed lines, or the
\* series itself for json.dump
output_modem_data(output_format, series) ==
    IF output_format = "influxdb"
    THEN [format |-> "influxdb",
          data |-> [i \in 1..Len(series) |->
                     LET point == series[i]
                         names == IF point.tags.direction = "downstream"
                                  THEN DownstreamFields ELSE UpstreamFields
                     IN  [measurement |-> point.measurement,
                          tags |-> <<<<"channel", Str(point.tags.channel)>>,
                                     <<"direction", point.tags.direction>>>>,
                          fields |-> [j \in 1..Len(names) |->
                                        <<names[j], Str(point.fields[names[j]])>>],
                          when |-> point.time]]]
    ELSE [format |-> "json", data |-> series]

\* The rows of an Arris table: the title row and the heading row that
\* parse_modem skips, then the data rows.
ArrisHeadRows == <<ThRow(<<Modulation>>), TdRow(<<Modulation, LockStatus>>)>>

ArrisDownstreamRow ==
    TdRow(<<<<"1">>, Locked, QAM, <<"2">>, <<"7", " ", "H", "z">>, <<"8", ".", "1", " ", "d", "B", "m", "V">>, <<"3", "9", ".", "6", " ", "d", "B">>, <<"4">>, <<"0">>>>)

ArrisUpstreamRow == TdRow(<<<<"1">>, Locked, QAM, <<"3">>, <<"5", "1", "2", "0">>, <<"1", "9", " ", "H", "z">>, <<"3", "6", ".", "2", " ", "d", "B", "m", "V">>>>)

ArrisEmptyCellRow ==
    TdRow(<<<<"2">>, Locked, QAM, <<"5">>, <<"7", " ", "H", "z">>, None, <<"4", "0", " ", "d", "B">>, <<"4">>, <<"0">>>>)

ArrisHeadingRow == ThRow(<<Modulation, LockStatus>>)

ArrisRows == {ArrisDownstreamRow, ArrisUpstreamRow, ArrisEmptyCellRow, ArrisHeadingRow}

ArrisTables(n) ==
    {[class |-> "simpleTable", rows |-> ArrisHeadRows \o rs] : rs \in [1..n -> ArrisRows]}

LayoutTable == [class |-> "", rows |-> << >>]

\* The documents with two layout tables and then no, one or two channel
\* tables of at most MaxRows data rows in all.
ArrisPages ==
    {Page(<<"title", StatusTitle>>, <<LayoutTable, LayoutTable>> \o ts) :
        ts \in {<< >>}
               \cup UNION {{<<d>> : d \in ArrisTables(n)} : n \in 0..MaxRows}
               \cup UNION {UNION {{<<d, u>> : d \in ArrisTables(n), u \in ArrisTables(m)} :
                                  m \in 0..(MaxRows - n)} : n \in 0..MaxRows}}

\* ------------------------------------------------------------------------
\* State
\* ------------------------------------------------------------------------
VARIABLES
    modem_class,           \* "MB7621" or "SB6183": the class of the collector
    auth,                  \* CableModem.auth
    status_page,           \* the document the modem serves at the status URL
    modem_kind,            \* how the modem answers: "gated", "open" or "any"
    logged_in,             \* page_status['logged_in'] of the modem
    pc,                    \* where the program is
    page,                  \* the local page of _process_modem_status
    downstream_channels,   \* CableModem.downstream_channels
    upstream_channels,     \* CableModem.upstream_channels
    time,                  \* CableModem.time
    series,                \* the value parse_modem returned to ArrisSB6183.run
    now,                   \* the clock datetime.now() reads, in half seconds
    outcome,               \* how the last run() ended: "ok" or the exception
    stdout,                \* what was printed since the last run() began
    runs,                  \* the run() calls so far
    fetches,               \* GETs of the status URL in this run()
    auth_calls,            \* calls of authenticate() in this run()
    posts,                 \* POSTs to the login URL in this run()
    stamps,                \* calls of _record_when() in this run()
    checks,                \* the results of needs_authentication() in this run()
    down0,                 \* downstream_channels when this run() began
    up0                    \* upstream_channels when this run() began

vars ==
    <<modem_class, auth, status_page, modem_kind, logged_in, pc, page, downstream_channels,
      upstream_channels, time, series, now, outcome, stdout, runs, fetches, auth_calls, posts,
      stamps, checks, down0, up0>>

config == <<modem_class, auth, status_page, modem_kind>>

collector == <<downstream_channels, upstream_channels, time, series>>

counters == <<fetches, auth_calls, posts, stamps, checks, down0, up0>>

DateTime(n) == <<"datetime", n>>

Warning(text) == [format |-> "warning", data |-> text]

\* CableModem.__init__ (and ArrisSB6183.__init__): a new collector
Constructed ==
    /\ pc = "idle"
    /\ page = None
    /\ downstream_channels = << >>
    /\ upstream_channels = << >>
    /\ time = None
    /\ series = << >>
    /\ outcome = "none"
    /\ stdout = << >>
    /\ fetches = 0 /\ auth_calls = 0 /\ posts = 0 /\ stamps = 0
    /\ checks = << >> /\ down0 = << >> /\ up0 = << >>

Init ==
    /\ modem_class \in {"MB7621", "SB6183"}
    /\ IF modem_class = "MB7621"
       THEN /\ modem_kind \in {"gated", "any"}
            /\ auth \in IF modem_kind = "gated" THEN AuthChoices ELSE AnyAuthChoices
            /\ \E counts \in RowCounts : status_page \in StatusPages(CycleKinds, counts)
       ELSE /\ modem_kind \in {"open", "any"}
            /\ auth = None
            /\ status_page \in ArrisPages
    /\ logged_in = FALSE
    /\ now = 0
    /\ runs = 0
    /\ Constructed

\* ------------------------------------------------------------------------
\* The modem
\* ------------------------------------------------------------------------
\* What a GET of the status URL can give. mb7621_request of the test fixture
\* serves the login page until a login succeeded; an open modem serves the
\* status page; any other modem serves anything or does not answer.
Responses ==
    IF modem_kind = "gated" THEN {Ok(IF logged_in THEN status_page ELSE LoginPage)}
    ELSE IF modem_kind = "open" THEN {Ok(status_page)}
    ELSE IF modem_class = "SB6183" THEN {Ok(status_page), Raise("ConnectionError")}
    ELSE {Ok(LoginPage), Ok(status_page), Ok(NoTitlePage), Ok(EmptyTitlePage),
          Raise("ConnectionError")}

\* ------------------------------------------------------------------------
\* CableModem / MotorolaMB7621
\* ------------------------------------------------------------------------
\* collector.run() is called (main, or a caller that runs a collector again).
Run ==
    /\ pc \in {"idle", "done"}
    /\ outcome # "SystemExit"
    /\ runs < MaxRuns
    /\ runs' = runs + 1
    /\ pc' = IF modem_class = "MB7621" THEN "fetch1" ELSE "arris_fetch"
    /\ outcome' = "none"
    /\ stdout' = << >>
    /\ fetches' = 0 /\ auth_calls' = 0 /\ posts' = 0 /\ stamps' = 0 /\ checks' = << >>
    /\ down0' = downstream_channels /\ up0' = upstream_channels
    /\ UNCHANGED <<config, logged_in, page, collector, now>>

\* A new process constructs a new collector.
NewCollector ==
    /\ pc = "done"
    /\ runs < MaxRuns
    /\ pc' = "idle"
    /\ page' = None
    /\ downstream_channels' = << >>
    /\ upstream_channels' = << >>
    /\ time' = None
    /\ series' = << >>
    /\ outcome' = "none"
    /\ stdout' = << >>
    /\ fetches' = 0 /\ auth_calls' = 0 /\ posts' = 0 /\ stamps' = 0
    /\ checks' = << >> /\ down0' = << >> /\ up0' = << >>
    /\ UNCHANGED <<config, logged_in, now, runs>>

\* CableModem._fetch_status_page: a transport failure exits the process.
_fetch_status_page ==
    /\ pc \in {"fetch1", "fetch2"}
    /\ fetches' = fetches + 1
    /\ now' = now + 1
    /\ \E resp \in Responses :
         IF resp.ok
         THEN /\ page' = resp.val
              /\ pc' = IF pc = "fetch1" THEN "check1" ELSE "check2"
              /\ UNCHANGED outcome
         ELSE /\ outcome' = "SystemExit"
              /\ pc' = "done"
              /\ UNCHANGED page
    /\ UNCHANGED <<config, logged_in, collector, stdout, runs, auth_calls, posts, stamps,
                   checks, down0, up0>>

\* A retry loop: a page that still asks for a login is answered with another
\* authenticate().
NextStepRetry(at, needed) == IF ~needed THEN "record" ELSE "authenticate"

\* A cycle that goes on after the second page asked for a login again.
NextStepUnchecked(at, needed) ==
    IF needed /\ at = "check1" THEN "authenticate" ELSE "record"

\* Where _process_modem_status goes after a needs_authentication(page): the
\* first one leads to authenticate(), the second one raises RuntimeError.
NextStep(at, needed) ==
    IF ~needed THEN "record"
    ELSE IF at = "check1" THEN "authenticate"
    ELSE "raise"

\* The two  if self.needs_authentication(page)  of _process_modem_status
CheckAuthentication ==
    /\ pc \in {"check1", "check2"}
    /\ LET needed == needs_authentication(page)
       IN  IF ~needed.ok
           THEN /\ outcome' = needed.exc /\ pc' = "done" /\ UNCHANGED checks
           ELSE /\ checks' = Append(checks, needed.val)
                /\ IF NextStep(pc, needed.val) = "raise"
                   THEN pc' = "done" /\ outcome' = "RuntimeError"
                   ELSE pc' = NextStep(pc, needed.val) /\ UNCHANGED outcome
    /\ UNCHANGED <<config, logged_in, page, collector, now, stdout, runs, fetches, auth_calls,
                   posts, stamps, down0, up0>>

\* What MotorolaMB7621.authenticate does before it posts: it returns when
\* there are no credentials, password.encode raises when the password is
\* None, and otherwise the form is built.
LoginRequest(credentials) ==
    IF credentials = None THEN [step |-> "return", form |-> None]
    ELSE IF credentials[2] = None THEN [step |-> "AttributeError", form |-> None]
    ELSE [step |-> "post", form |-> LoginForm(credentials[1], credentials[2])]

\* MotorolaMB7621.authenticate
authenticate ==
    /\ pc = "authenticate"
    /\ auth_calls' = auth_calls + 1
    /\ LET request == LoginRequest(auth)
       IN  IF request.step = "return"
           THEN /\ pc' = "fetch2"
                /\ UNCHANGED <<logged_in, now, outcome, posts>>
           ELSE IF request.step = "AttributeError"
           THEN /\ outcome' = "AttributeError" /\ pc' = "done"
                /\ UNCHANGED <<logged_in, now, posts>>
           ELSE /\ posts' = posts + 1
                /\ now' = now + 1
                /\ IF modem_kind = "gated"
                   THEN /\ logged_in' = mb7621_login(request.form)
                        /\ pc' = "fetch2" /\ UNCHANGED outcome
                   ELSE /\ UNCHANGED logged_in
                        /\ \/ pc' = "fetch2" /\ UNCHANGED outcome
                           \/ pc' = "done" /\ outcome' = "ConnectionError"
    /\ UNCHANGED <<config, page, collector, stdout, runs, fetches, stamps, checks, down0, up0>>

\* CableModem._record_when
_record_when ==
    /\ pc = "record"
    /\ time' = DateTime(now)
    /\ stamps' = stamps + 1
    /\ pc' = "parse"
    /\ UNCHANGED <<config, logged_in, page, downstream_channels, upstream_channels, series, now,
                   outcome, stdout, runs, fetches, auth_calls, posts, checks, down0, up0>>

\* self._parse_status_page(page), which ends run()
ParseStatusPage ==
    /\ pc = "parse"
    /\ LET st == _parse_status_page(page, downstream_channels, upstream_channels)
       IN  /\ downstream_channels' = st.downstream_channels
           /\ upstream_channels' = st.upstream_channels
           /\ stdout' = stdout \o [i \in 1..Len(st.printed) |-> Warning(st.printed[i])]
           /\ outcome' = IF st.exc = "none" THEN "ok" ELSE st.exc
    /\ pc' = "done"
    /\ UNCHANGED <<config, logged_in, page, time, series, now, runs, counters>>

\* print(collector.format_modem_data(args.format)) of main, after a run()
\* that returned
FormatModemData ==
    /\ modem_class = "MB7621"
    /\ pc = "done"
    /\ outcome = "ok"
    /\ \A i \in 1..Len(stdout) : stdout[i].format = "warning"
    /\ \E output_format \in OutputFormats :
         stdout' = Append(stdout, format_modem_data(output_format, downstream_channels,
                                                    upstream_channels, time[2]))
    /\ UNCHANGED <<config, logged_in, pc, page, collector, now, outcome, runs, counters>>

\* ------------------------------------------------------------------------
\* ArrisSB6183.run
\* ------------------------------------------------------------------------
\* The requests.get of parse_modem: a transport failure exits the process.
ArrisFetch ==
    /\ pc = "arris_fetch"
    /\ fetches' = fetches + 1
    /\ now' = now + 1
    /\ \E resp \in Responses :
         IF resp.ok
         THEN page' = resp.val /\ pc' = "arris_parse" /\ UNCHANGED outcome
         ELSE outcome' = "SystemExit" /\ pc' = "done" /\ UNCHANGED page
    /\ UNCHANGED <<config, logged_in, collector, stdout, runs, auth_calls, posts, stamps,
                   checks, down0, up0>>

\* The rest of parse_modem: the timestamp and the two table loops
ArrisParse ==
    /\ pc = "arris_parse"
    /\ LET st == parse_modem(page, now)
       IN  IF st.exc = "none"
           THEN series' = st.series /\ pc' = "arris_output" /\ UNCHANGED outcome
           ELSE outcome' = st.exc /\ pc' = "done" /\ UNCHANGED series
    /\ stamps' = stamps + 1
    /\ UNCHANGED <<config, logged_in, page, downstream_channels, upstream_channels, time, now,
                   stdout, runs, fetches, auth_calls, posts, checks, down0, up0>>

\* self.output_modem_data(modem_stats), which ends run()
ArrisOutput ==
    /\ pc = "arris_output"
    /\ \E output_format \in OutputFormats :
         stdout' = Append(stdout, output_modem_data(output_format, series))
    /\ outcome' = "ok"
    /\ pc' = "done"
    /\ UNCHANGED <<config, logged_in, page, collector, now, runs, counters>>

Next ==
    \/ Run
    \/ NewCollector
    \/ _fetch_status_page
    \/ CheckAuthentication
    \/ authenticate
    \/ _record_when
    \/ ParseStatusPage
    \/ FormatModemData
    \/ ArrisFetch
    \/ ArrisParse
    \/ ArrisOutput

Spec == Init /\ [][Next]_vars

\* ------------------------------------------------------------------------
\* MotorolaMB7621._parse_status_page and the output on their own, on every page
\* ------------------------------------------------------------------------
\* A collector that fetched the page from an open modem and stamped the time.
InitParse ==
    /\ modem_class = "MB7621"
    /\ modem_kind = "open"
    /\ auth = None
    /\ \E counts \in RowCounts : status_page \in StatusPages(AllKinds, counts)
    /\ page = status_page
    /\ logged_in = FALSE
    /\ pc = "parse"
    /\ downstream_channels = << >>
    /\ upstream_channels = << >>
    /\ time = DateTime(1)
    /\ series = << >>
    /\ now = 1
    /\ outcome = "none"
    /\ stdout = << >>
    /\ runs = 1
    /\ fetches = 1 /\ auth_calls = 0 /\ posts = 0 /\ stamps = 1
    /\ checks = <<FALSE>> /\ down0 = << >> /\ up0 = << >>

NextParse ==
    \/ ParseStatusPage
    \/ FormatModemData

SpecParse == InitParse /\ [][NextParse]_vars

\* ------------------------------------------------------------------------
\* Properties
\* ------------------------------------------------------------------------
\* What was printed, by kind.
Warnings == SelectSeq(stdout, LAMBDA o : o.format = "warning")

LineProtocolOutputs == SelectSeq(stdout, LAMBDA o : o.format = "influxdb")

IsPrefix(a, b) == Len(a) <= Len(b) /\ SubSeq(b, 1, Len(a)) = a

RECURSIVE Flatten(_)
Flatten(seqs) == IF seqs = << >> THEN << >> ELSE Head(seqs) \o Flatten(Tail(seqs))

\* The text of the td cells of a row of the document.
TdCells(row) ==
    LET cells == SelectSeq(row, LAMBDA c : c.tag = "td")
    IN  [j \in 1..Len(cells) |-> cells[j].string]

\* A candidate table: selected by its class, with the sentinel in the first
\* cell of its header row.
Candidate(t) ==
    /\ t.class = TableClass
    /\ t.rows # << >>
    /\ TdCells(t.rows[1]) # << >>
    /\ TdCells(t.rows[1])[1] = ChannelSentinel

\* A candidate table whose header is the expected one.
Accepted(t, header_row) == Candidate(t) /\ TdCells(t.rows[1]) = header_row

Mismatched(t) ==
    Candidate(t) /\ TdCells(t.rows[1]) \notin {DownstreamHeaderRow, UpstreamHeaderRow}

\* The data rows of the accepted tables of a document, in document order.
DataRows(p, header_row) ==
    LET ts == SelectSeq(p.tables, LAMBDA t : Accepted(t, header_row))
    IN  Flatten([i \in 1..Len(ts) |-> [j \in 1..(Len(ts[i].rows) - 1) |-> TdCells(ts[i].rows[j + 1])]])

IsLocked(row) == Len(row) >= 2 /\ row[2] = Locked

KeptDownstream(p) ==
    SelectSeq(DataRows(p, DownstreamHeaderRow), LAMBDA row : IsLocked(row) /\ row[1] # Total)

KeptUpstream(p) == SelectSeq(DataRows(p, UpstreamHeaderRow), IsLocked)

\* The channel ids of channels as text, and the Channel ID cells of rows.
ChannelIds(channels) == [i \in 1..Len(channels) |-> Str(channels[i].channel_id)]

RowIds(rows) == [i \in 1..Len(rows) |-> rows[i][4]]

\* Credentials of two strings that are not the modem's.
WrongCredentials == auth # None /\ auth[2] # None /\ auth # ModemAuth

\* C1: in one poll cycle the status page is fetched at most twice,
\* authenticate() is called at most once and posts at most once, it is called
\* only after the first page asked for a login, and after the second check
\* the cycle goes on to the timestamp or ends: it never authenticates again.
AtMostOneAuthentication ==
    /\ fetches <= 2
    /\ auth_calls <= 1
    /\ posts <= auth_calls
    /\ Len(checks) <= 2
    /\ (auth_calls = 1 => checks # << >> /\ checks[1])
    /\ (pc = "authenticate" => checks = <<TRUE>> /\ auth_calls = 0)
    /\ (Len(checks) = 2 => auth_calls = 1 /\ pc \in {"record", "parse", "done"})

\* A cycle that fetched, authenticated with a POST, fetched again and was
\* asked for a login again.
SecondLoginPageEndsCycle ==
    /\ pc = "done"
    /\ outcome = "RuntimeError"
    /\ checks = <<TRUE, TRUE>>
    /\ fetches = 2 /\ auth_calls = 1 /\ posts = 1

\* C2: against the modem that serves the login page until a login with its
\* (username, base64(password)) succeeded, a cycle with the right credentials
\* ends with the status page parsed into the collector and no error unless
\* a cell of the page is not a number; a cycle with wrong credentials ends
\* with the RuntimeError after one POST and one re-fetch, never stamping the
\* time or parsing.
GatedModemCycle ==
    /\ modem_kind = "gated" /\ auth = ModemAuth /\ pc = "done" =>
         LET st == _parse_status_page(status_page, down0, up0)
         IN  /\ logged_in
             /\ page = status_page
             /\ stamps = 1
             /\ posts <= 1 /\ fetches = posts + 1
             /\ downstream_channels = st.downstream_channels
             /\ upstream_channels = st.upstream_channels
             /\ outcome \in {"ok", "ValueError"}
             /\ (outcome = "ok" =>
                   /\ ChannelIds(downstream_channels)
                        = ChannelIds(down0) \o RowIds(DataRows(status_page, DownstreamHeaderRow))
                   /\ ChannelIds(upstream_channels)
                        = ChannelIds(up0) \o RowIds(DataRows(status_page, UpstreamHeaderRow)))
    /\ modem_kind = "gated" /\ WrongCredentials =>
         /\ ~logged_in
         /\ pc \notin {"record", "parse"}
         /\ stamps = 0
         /\ downstream_channels = << >> /\ upstream_channels = << >>
         /\ (pc = "done" =>
               outcome = "RuntimeError" /\ auth_calls = 1 /\ posts = 1 /\ fetches = 2)

\* A cycle with a wrong password that ended after its one login attempt.
WrongPasswordRejected ==
    /\ modem_kind = "gated"
    /\ auth = <<ModemAuth[1], <<"p", "a", "s", "s", "1", "2", "3">>>>
    /\ pc = "done"
    /\ outcome = "RuntimeError"
    /\ posts = 1 /\ fetches = 2

\* C3: without credentials, once the first page asked for a login no POST
\* is sent, the status page is not fetched again, and the cycle can only end
\* with the RuntimeError.
NoCredentialsFailImmediately ==
    auth = None /\ checks # << >> /\ checks[1] =>
        /\ posts = 0
        /\ fetches = 1
        /\ (pc = "done" => outcome = "RuntimeError")

\* C4: after _parse_status_page the downstream channels are the data rows of
\* the accepted nine-column tables that are Locked and not the Total row,
\* and the upstream channels the data rows of the accepted seven-column
\* tables that are Locked, one channel a row in document order; a parse that
\* raised holds the first of them, and never a channel of another row.
RowFiltering ==
    pc = "done" =>
        /\ IsPrefix(ChannelIds(downstream_channels), RowIds(KeptDownstream(page)))
        /\ IsPrefix(ChannelIds(upstream_channels), RowIds(KeptUpstream(page)))
        /\ (outcome = "ok" =>
              /\ ChannelIds(downstream_channels) = RowIds(KeptDownstream(page))
              /\ ChannelIds(upstream_channels) = RowIds(KeptUpstream(page)))

\* A downstream table of the Total row and a Locked row gave one channel.
TotalRowSkipped ==
    /\ pc = "done"
    /\ outcome = "ok"
    /\ \E i \in 1..Len(page.tables) :
         page.tables[i].rows
           = <<TdRow(DownstreamHeaderRow), TdRow(RowTotal9), TdRow(RowLocked9)>>
    /\ ChannelIds(downstream_channels) = <<RowLocked9[4]>>

\* C5: a page that was parsed to its end printed one warning for every
\* candidate table whose header is not an expected one, of eight columns or
\* of nine or seven with other labels; those tables gave no channel and the
\* other tables gave theirs.
MismatchWarned ==
    pc = "done" /\ outcome = "ok" =>
        /\ Len(Warnings) = Len(SelectSeq(page.tables, Mismatched))
        /\ ChannelIds(downstream_channels) = RowIds(KeptDownstream(page))
        /\ ChannelIds(upstream_channels) = RowIds(KeptUpstream(page))

\* C6: a run() that ended in an error left the channel lists as they were
\* when it began and printed no data.
NoPartialOutput ==
    pc = "done" /\ outcome # "ok" =>
        /\ downstream_channels = down0
        /\ upstream_channels = up0
        /\ Len(Warnings) = Len(stdout)

\* C7: every upstream channel either parser produced has no snr.
UpstreamSnrAbsent ==
    /\ \A i \in 1..Len(upstream_channels) : upstream_channels[i].snr = None
    /\ \A i \in 1..Len(series) :
         series[i].tags.direction = "upstream" => series[i].fields.snr = None

\* The names of the fields of a line, and their places in the declared order.
FieldNames(line) == [j \in 1..Len(line.fields) |-> line.fields[j][1]]

Place(names, f) == CHOOSE j \in 1..Len(names) : names[j] = f

\* The line of the channel at a position of its direction: the tags, the
\* fields that are not None and no other, in declared order, with their text.
LineOfChannel(line, channel_data, names, direction, position) ==
    /\ line.measurement = "cable_modem"
    /\ line.tags = <<<<"direction", direction>>, <<"channel", NatText(position)>>>>
    /\ \A j \in 1..Len(names) :
         channel_data[names[j]] # None <=> \E k \in 1..Len(line.fields) : line.fields[k][1] = names[j]
    /\ \A k \in 1..Len(line.fields) :
         /\ \E j \in 1..Len(names) : names[j] = line.fields[k][1]
         /\ line.fields[k][2] = Str(channel_data[line.fields[k][1]])
         /\ \A l \in 1..(k - 1) :
              Place(names, line.fields[l][1]) < Place(names, line.fields[k][1])

RepeatedCaptureSame ==
    modem_class = "MB7621" /\ pc = "done" /\ outcome = "ok" =>
        LET st == _parse_status_page(page, << >>, << >>)
        IN  /\ downstream_channels = st.downstream_channels
            /\ upstream_channels = st.upstream_channels

\* C10: a cycle stamps the time at most once, and a cycle that returned
\* stamped it once; the stamp comes after a check that did not ask for a
\* login and before the parse; a cycle that ended with the RuntimeError, in
\* a failed request or in an exception of authenticate() did not stamp; and
\* the lines of an output carry the one stamp.
OneTimestamp ==
    /\ stamps <= 1
    /\ (pc = "done" /\ outcome = "ok" => stamps = 1)
    /\ outcome \in {"RuntimeError", "SystemExit", "ConnectionError", "AttributeError",
                    "TypeError"} => stamps = 0
    /\ modem_class = "MB7621" =>
         /\ pc = "record" => stamps = 0
         /\ pc = "parse" =>
              stamps = 1 /\ downstream_channels = down0 /\ upstream_channels = up0
         /\ stamps = 1 => checks # << >> /\ ~checks[Len(checks)] /\ time # None
         /\ downstream_channels # down0 \/ upstream_channels # up0 => stamps = 1
         /\ \A o \in 1..Len(LineProtocolOutputs) :
              \A i \in 1..Len(LineProtocolOutputs[o].data) :
                 LineProtocolOutputs[o].data[i].when = CurrentNs(time[2])
    /\ \A o \in 1..Len(LineProtocolOutputs) :
         \A i, j \in 1..Len(LineProtocolOutputs[o].data) :
            LineProtocolOutputs[o].data[i].when = LineProtocolOutputs[o].data[j].when

\* A cycle that logged in, stamped the time after the second check and
\* printed two lines.
StampedAfterLogin ==
    /\ pc = "done"
    /\ outcome = "ok"
    /\ checks = <<TRUE, FALSE>>
    /\ stamps = 1
    /\ LineProtocolOutputs # << >>
    /\ Len(LineProtocolOutputs[1].data) = 2

\* The cells parse_modem converts in a data row of a direction, as
\* <<column, unit, conversion>>.
ArrisConversions(direction) ==
    IF direction = "downstream"
    THEN <<<<1, << >>, "int">>, <<4, << >>, "int">>, <<5, <<" ", "H", "z">>, "int">>,
           <<6, <<" ", "d", "B", "m", "V">>, "float">>, <<7, <<" ", "d", "B">>, "float">>,
           <<8, << >>, "int">>, <<9, << >>, "int">>>>
    ELSE <<<<1, << >>, "int">>, <<4, << >>, "int">>, <<6, <<" ", "H", "z">>, "int">>,
           <<7, <<" ", "d", "B", "m", "V">>, "float">>>>

\* What is converted of a cell with text: the text without the unit.
ConvertedText(string, unit) ==
    IF unit = << >> THEN Strip(string) ELSE Strip(Remove(string, unit))

\* A data row with a cell that has text, after its unit is taken away, that
\* is not a number.
HasGarbledCell(row, direction) ==
    \E k \in 1..Len(ArrisConversions(direction)) :
        LET c == ArrisConversions(direction)[k]
        IN  /\ c[1] <= Len(row)
            /\ row[c[1]].string # None
            /\ ConvertedText(row[c[1]].string, c[2]) # << >>
            /\ ~Apply(c[3], ConvertedText(row[c[1]].string, c[2])).ok

HasGarbledRow(table, direction) ==
    \E i \in 3..Len(table.rows) : HasGarbledCell(table.rows[i], direction)

\* C11: a cell without text and a cell of the empty string give a field
\* that is None and a cell with text gives its int or float, so that every
\* field of a channel is None or a number; only a cell with text that is not
\* a number makes the conversion raise.
CellConversion ==
    /\ \A i \in 1..Len(downstream_channels) : \A j \in 1..Len(DownstreamFields) :
         LET value == downstream_channels[i][DownstreamFields[j]]
         IN  value = None \/ (value # << >> /\ value[1] \in {"int", "float"})
    /\ \A i \in 1..Len(upstream_channels) : \A j \in 1..Len(UpstreamFields) :
         LET value == upstream_channels[i][UpstreamFields[j]]
         IN  value = None \/ (value # << >> /\ value[1] \in {"int", "float"})
    /\ modem_class = "SB6183" /\ pc = "done" /\ outcome = "ValueError" =>
         \/ HasGarbledRow(page.tables[3], "downstream")
         \/ Len(page.tables) >= 4 /\ HasGarbledRow(page.tables[4], "upstream")

\* A data row of an accepted table on which the row loop raises.
DownstreamRowRaises(row) ==
    Len(row) < 2 \/ (IsLocked(row) /\ row[1] # Total /\ ~downstream(From(row, 3)).ok)

UpstreamRowRaises(row) ==
    \/ Len(row) < 2
    \/ IsLocked(row) /\ Len(row) < 4
    \/ IsLocked(row) /\ ~upstream(<<row[4]>> \o From(row, 5) \o <<None>>).ok

\* C12: a table of the class whose header row does not begin with the
\* sentinel, because it has no row, no td cell in its first row or no text
\* in its first cell, is passed over: it raises nothing, so that a parse
\* raises only on a data row of an accepted table, it gives no channel, and
\* the tables after it are parsed.
NonSentinelSkipped ==
    pc = "done" =>
        /\ IsPrefix(ChannelIds(downstream_channels), RowIds(KeptDownstream(page)))
        /\ IsPrefix(ChannelIds(upstream_channels), RowIds(KeptUpstream(page)))
        /\ (outcome # "ok" =>
              \/ \E i \in 1..Len(DataRows(page, DownstreamHeaderRow)) :
                    DownstreamRowRaises(DataRows(page, DownstreamHeaderRow)[i])
              \/ \E i \in 1..Len(DataRows(page, UpstreamHeaderRow)) :
                    UpstreamRowRaises(DataRows(page, UpstreamHeaderRow)[i]))
        /\ (outcome = "ok" =>
              /\ Len(downstream_channels) = Len(KeptDownstream(page))
              /\ Len(upstream_channels) = Len(KeptUpstream(page)))

====
